---- MODULE Spec2Model ----
(***************************************************************************)
(* Aho-Corasick automaton of src/src/lib.rs: trie insertion (add_item),    *)
(* breadth-first failure construction (build_failure) and the streaming    *)
(* search cursor (AutomationSearch).  Node indices and pattern identities  *)
(* are 0-based as in the source; a Vec addressed by index is a function    *)
(* on 0..len-1.                                                            *)
(***************************************************************************)
EXTENDS Integers, Sequences, FiniteSets, TLC

\* ---------------------------------------------------------------- bounds
\* Spec: one cursor over every collection of at most MaxPatterns patterns
\* holding at most MaxTotalLen symbols in all, fed at most MaxStream symbols.
MaxPatterns == 3
MaxTotalLen == 4
MaxStream == 3
\* SpecPair: two cursors, each fed at most PairStream symbols.
PairPatterns == 2
PairTotalLen == 3
PairStream == 2
\* SpecBuild: build alone, over larger collections.
BuildPatterns == 3
BuildTotalLen == 5

\* The alphabet (P::Char) and the cursors a caller holds.
Symbols == {"a", "b"}
Cursors == {"s1", "s2"}

VARIABLES
    input,      \* the pattern collection handed to build (never changes)
    items,      \* the part of the `items` iterator not yet consumed
    nodes,      \* Automation::nodes
    outputs,    \* Automation::outputs (the pattern catalog)
    queue,      \* build_failure's BFS queue
    node_index, \* build_failure: the node whose edges are being visited
    pending,    \* build_failure: edges of node_index not yet visited
    pc,         \* position of build: add_items, build_failure, done, panic, hang
    cursors,    \* the AutomationSearch values, by holder
    history     \* what build_failure has done so far: how often each node was
                \* enqueued and had its failure assigned, and the nodes whose
                \* failure or outputs it has read

vars == <<input, items, nodes, outputs, queue, node_index, pending, pc, cursors, history>>

\* ------------------------------------------------------------ Vec helpers
VecLen(v) == Cardinality(DOMAIN v)

VecPush(v, x) == [i \in 0..VecLen(v) |-> IF i < VecLen(v) THEN v[i] ELSE x]

Range(s) == {s[i] : i \in DOMAIN s}

SeqsUpTo(S, n) == UNION {[1..k -> S] : k \in 0..n}

\* The collections of exactly k patterns over Symbols with at most t symbols in all.
RECURSIVE InputsOfLen(_, _)
InputsOfLen(k, t) ==
    IF k = 0
    THEN {<<>>}
    ELSE UNION {{<<p>> \o rest : rest \in InputsOfLen(k - 1, t - Len(p))} :
                p \in SeqsUpTo(Symbols, t)}

Inputs(maxPatterns, maxTotal) == UNION {InputsOfLen(k, maxTotal) : k \in 0..maxPatterns}

\* ------------------------------------------------------- AutomationNode
AutomationNode_new == [goto |-> <<>>, failure |-> 0, outputs |-> <<>>]

contains(node, c) == c \in DOMAIN node.goto

add_child(goto, c, node_idx) ==
    [x \in (DOMAIN goto) \cup {c} |-> IF x = c THEN node_idx ELSE goto[x]]

add_output_once(outs, output) == IF outs = <<>> THEN Append(outs, output) ELSE outs

add_output(outs, output) == Append(outs, output)

\* ------------------------------------------------------------- add_item
\* The walk of add_item: follow the edge for each symbol, allocating a node
\* where there is none.  Yields the grown nodes and the terminal node.
step_always_new(ns, node_idx, c) ==
    LET new_node_idx == VecLen(ns)
        pushed == VecPush(ns, AutomationNode_new)
    IN [nodes |-> [pushed EXCEPT ![node_idx].goto = add_child(@, c, new_node_idx)],
        node_idx |-> new_node_idx]

add_item_step(ns, node_idx, c) ==
    IF contains(ns[node_idx], c)
    THEN [nodes |-> ns, node_idx |-> ns[node_idx].goto[c]]
    ELSE LET new_node_idx == VecLen(ns)
             pushed == VecPush(ns, AutomationNode_new)
         IN [nodes |-> [pushed EXCEPT ![node_idx].goto = add_child(@, c, new_node_idx)],
             node_idx |-> new_node_idx]

RECURSIVE add_item_walk(_, _, _)
add_item_walk(ns, node_idx, rest) ==
    IF rest = <<>>
    THEN [nodes |-> ns, node_idx |-> node_idx]
    ELSE LET s == add_item_step(ns, node_idx, Head(rest))
         IN add_item_walk(s.nodes, s.node_idx, Tail(rest))

output_idx_after_push(outs) == VecLen(outs) + 1

output_idx(outs) == VecLen(outs)

add_item(ns, outs, item) ==
    LET w == add_item_walk(ns, 0, item)
    IN [nodes |-> [w.nodes EXCEPT ![w.node_idx].outputs = add_output(@, output_idx(outs))],
        outputs |-> VecPush(outs, item)]

\* -------------------------------------------------------- build_failure
\* The loop that looks for the longest proper suffix: follow failure first,
\* then test.  `read` is the set of nodes whose failure the loop has read.  `fuel` bounds the number of iterations examined; a chain that
\* has not reached its exit after one iteration per node never will.
RECURSIVE lps_loop_test_first(_, _, _, _)
lps_loop_test_first(ns, lps, c, fuel) ==
    IF lps = 0 \/ contains(ns[lps], c)
    THEN [lps |-> lps, exits |-> TRUE, read |-> {}]
    ELSE IF fuel = 0
         THEN [lps |-> lps, exits |-> FALSE, read |-> {lps}]
         ELSE LET r == lps_loop_test_first(ns, ns[lps].failure, c, fuel - 1)
              IN [r EXCEPT !.read = @ \cup {lps}]

RECURSIVE lps_loop(_, _, _, _)
lps_loop(ns, lps, c, fuel) ==
    LET l == ns[lps].failure
    IN IF l = 0 \/ contains(ns[l], c)
       THEN [lps |-> l, exits |-> TRUE, read |-> {lps}]
       ELSE IF fuel = 0
            THEN [lps |-> l, exits |-> FALSE, read |-> {lps}]
            ELSE LET r == lps_loop(ns, l, c, fuel - 1)
                 IN [r EXCEPT !.read = @ \cup {lps}]

lps_target_no_root_edge(ns, lps, c) ==
    IF lps # 0 /\ contains(ns[lps], c) THEN ns[lps].goto[c] ELSE 0

lps_target(ns, lps, c) ==
    IF contains(ns[lps], c) THEN ns[lps].goto[c] ELSE 0

merge_own_only(own, inherited) == own

merge_inherited_first(own, inherited) ==
    SelectSeq(inherited, LAMBDA output : output \notin Range(own)) \o own

merge_outputs(own, inherited) ==
    own \o SelectSeq(inherited, LAMBDA output : output \notin Range(own))

\* ------------------------------------------------------ AutomationSearch
\* `traversals` counts the failure links the cursor has followed so far.
NoSearch ==
    [status |-> "none", current |-> 0, consumed |-> <<>>, returned |-> <<>>,
     traversals |-> 0]

AutomationSearch_new ==
    [status |-> "ready", current |-> 0, consumed |-> <<>>, returned |-> <<>>,
     traversals |-> 0]

RECURSIVE next_loop_no_root_test(_, _, _, _, _)
next_loop_no_root_test(ns, current, c, steps, fuel) ==
    IF current \notin DOMAIN ns
    THEN [current |-> current, steps |-> steps, result |-> "panic"]
    ELSE IF ~contains(ns[current], c)
         THEN IF fuel = 0
              THEN [current |-> current, steps |-> steps, result |-> "hang"]
              ELSE next_loop_no_root_test(ns, ns[current].failure, c, steps + 1, fuel - 1)
         ELSE [current |-> current, steps |-> steps, result |-> "ok"]

RECURSIVE next_loop_stuck(_, _, _, _, _)
next_loop_stuck(ns, current, c, steps, fuel) ==
    IF current \notin DOMAIN ns
    THEN [current |-> current, steps |-> steps, result |-> "panic"]
    ELSE IF current # 0 /\ ~contains(ns[current], c)
         THEN IF fuel = 0
              THEN [current |-> current, steps |-> steps, result |-> "hang"]
              ELSE next_loop_stuck(ns, current, c, steps + 1, fuel - 1)
         ELSE [current |-> current, steps |-> steps, result |-> "ok"]

\* The failure-following loop of next.  `steps` counts the traversals.
RECURSIVE next_loop(_, _, _, _, _)
next_loop(ns, current, c, steps, fuel) ==
    IF current \notin DOMAIN ns
    THEN [current |-> current, steps |-> steps, result |-> "panic"]
    ELSE IF current # 0 /\ ~contains(ns[current], c)
         THEN IF fuel = 0
              THEN [current |-> current, steps |-> steps, result |-> "hang"]
              ELSE next_loop(ns, ns[current].failure, c, steps + 1, fuel - 1)
         ELSE [current |-> current, steps |-> steps, result |-> "ok"]

next_no_loop(ns, current, c) ==
    IF current \notin DOMAIN ns
    THEN [current |-> current, steps |-> 0, result |-> "panic"]
    ELSE [current |-> current, steps |-> 0, result |-> "ok"]

next_one_hop(ns, current, c) ==
    IF current \notin DOMAIN ns
    THEN [current |-> current, steps |-> 0, result |-> "panic"]
    ELSE IF current # 0 /\ ~contains(ns[current], c)
         THEN [current |-> ns[current].failure, steps |-> 1, result |-> "ok"]
         ELSE [current |-> current, steps |-> 0, result |-> "ok"]

next_walk(ns, current, c) == next_loop(ns, current, c, 0, VecLen(ns))

enter_child_or_one(node, c) == IF contains(node, c) THEN node.goto[c] ELSE 1

enter_child_or_root(node, c) == IF contains(node, c) THEN node.goto[c] ELSE 0

next_silent_at_root(ns, current, c) ==
    LET w == next_walk(ns, current, c)
    IN IF w.result # "ok"
       THEN [current |-> w.current, out |-> <<>>, steps |-> w.steps, result |-> w.result]
       ELSE LET cur == enter_child_or_root(ns[w.current], c)
            IN IF cur \notin DOMAIN ns
               THEN [current |-> cur, out |-> <<>>, steps |-> w.steps, result |-> "panic"]
               ELSE [current |-> cur, out |-> IF cur = 0 THEN <<>> ELSE ns[cur].outputs,
                     steps |-> w.steps, result |-> "ok"]

next(ns, current, c) ==
    LET w == next_walk(ns, current, c)
    IN IF w.result # "ok"
       THEN [current |-> w.current, out |-> <<>>, steps |-> w.steps, result |-> w.result]
       ELSE LET cur == enter_child_or_root(ns[w.current], c)
            IN IF cur \notin DOMAIN ns
               THEN [current |-> cur, out |-> <<>>, steps |-> w.steps, result |-> "panic"]
               ELSE [current |-> cur, out |-> ns[cur].outputs,
                     steps |-> w.steps, result |-> "ok"]

\* --------------------------------------------------------------- actions
build_nodes_two == VecPush(VecPush(<<>>, AutomationNode_new), AutomationNode_new)

build_nodes == VecPush(<<>>, AutomationNode_new)

Start(inputs) ==
    /\ input \in inputs
    /\ items = input
    /\ nodes = build_nodes
    /\ outputs = <<>>
    /\ queue = <<>>
    /\ node_index = 0
    /\ pending = {}
    /\ pc = "add_items"
    /\ cursors = [i \in Cursors |-> NoSearch]
    /\ history = [enqueued |-> <<>>, assigned |-> <<>>, read |-> {}]

Init == Start(Inputs(MaxPatterns, MaxTotalLen))

InitPair == Start(Inputs(PairPatterns, PairTotalLen))

InitBuild == Start(Inputs(BuildPatterns, BuildTotalLen))

\* add_items: one turn of `for item in items`.
AddItem ==
    /\ pc = "add_items"
    /\ items # <<>>
    /\ LET r == add_item(nodes, outputs, Head(items))
       IN /\ nodes' = r.nodes
          /\ outputs' = r.outputs
    /\ items' = Tail(items)
    /\ UNCHANGED <<input, queue, node_index, pending, pc, cursors, history>>

EndItems_no_root ==
    /\ pc = "add_items"
    /\ items = <<>>
    /\ queue' = <<>>
    /\ pc' = "build_failure"
    /\ history' = [enqueued |-> [n \in DOMAIN nodes |-> 0],
                   assigned |-> [n \in DOMAIN nodes |-> 0],
                   read |-> {}]
    /\ UNCHANGED <<input, items, nodes, outputs, node_index, pending, cursors>>

\* add_items returns; build_failure starts with the root in the queue.
EndItems ==
    /\ pc = "add_items"
    /\ items = <<>>
    /\ queue' = <<0>>
    /\ pc' = "build_failure"
    /\ history' = [enqueued |-> [n \in DOMAIN nodes |-> IF n = 0 THEN 1 ELSE 0],
                   assigned |-> [n \in DOMAIN nodes |-> 0],
                   read |-> {}]
    /\ UNCHANGED <<input, items, nodes, outputs, node_index, pending, cursors>>

PopBack ==
    /\ pc = "build_failure"
    /\ pending = {}
    /\ queue # <<>>
    /\ node_index' = queue[Len(queue)]
    /\ queue' = SubSeq(queue, 1, Len(queue) - 1)
    /\ pending' = DOMAIN nodes[queue[Len(queue)]].goto
    /\ UNCHANGED <<input, items, nodes, outputs, pc, cursors, history>>

\* `while let Some(node_index) = queue.pop_front()`: a node is dequeued.
PopFront ==
    /\ pc = "build_failure"
    /\ pending = {}
    /\ queue # <<>>
    /\ node_index' = Head(queue)
    /\ queue' = Tail(queue)
    /\ pending' = DOMAIN nodes[Head(queue)].goto
    /\ UNCHANGED <<input, items, nodes, outputs, pc, cursors, history>>

VisitEdge_push_front ==
    /\ pc = "build_failure"
    /\ pending # {}
    /\ \E c \in pending :
        LET next_node_index == nodes[node_index].goto[c]
            l == lps_loop(nodes, node_index, c, VecLen(nodes))
            lps == IF node_index # 0 THEN lps_target(nodes, l.lps, c) ELSE 0
        IN IF node_index # 0 /\ ~l.exits
           THEN /\ pc' = "hang"
                /\ UNCHANGED <<nodes, queue, pending, history>>
           ELSE IF next_node_index = lps
           THEN /\ pc' = "panic"
                /\ UNCHANGED <<nodes, queue, pending, history>>
           ELSE /\ nodes' = [nodes EXCEPT
                              ![next_node_index].failure = lps,
                              ![next_node_index].outputs =
                                  merge_outputs(@, nodes[lps].outputs)]
                /\ queue' = <<next_node_index>> \o queue
                /\ pending' = pending \ {c}
                /\ pc' = pc
                /\ history' = [enqueued |-> [history.enqueued EXCEPT ![next_node_index] = @ + 1],
                               assigned |-> [history.assigned EXCEPT ![next_node_index] = @ + 1],
                               read |-> history.read \cup {lps}
                                        \cup (IF node_index # 0 THEN l.read ELSE {})]
    /\ UNCHANGED <<input, items, outputs, node_index, cursors>>

\* One turn of `for (c, &next_node_index) in goto.iter()`; the hash map
\* yields its edges in any order.
VisitEdge ==
    /\ pc = "build_failure"
    /\ pending # {}
    /\ \E c \in pending :
        LET next_node_index == nodes[node_index].goto[c]
            l == lps_loop(nodes, node_index, c, VecLen(nodes))
            lps == IF node_index # 0 THEN lps_target(nodes, l.lps, c) ELSE 0
        IN IF node_index # 0 /\ ~l.exits
           THEN /\ pc' = "hang"
                /\ UNCHANGED <<nodes, queue, pending, history>>
           ELSE IF next_node_index = lps
           THEN /\ pc' = "panic"
                /\ UNCHANGED <<nodes, queue, pending, history>>
           ELSE /\ nodes' = [nodes EXCEPT
                              ![next_node_index].failure = lps,
                              ![next_node_index].outputs =
                                  merge_outputs(@, nodes[lps].outputs)]
                /\ queue' = Append(queue, next_node_index)
                /\ pending' = pending \ {c}
                /\ pc' = pc
                /\ history' = [enqueued |-> [history.enqueued EXCEPT ![next_node_index] = @ + 1],
                               assigned |-> [history.assigned EXCEPT ![next_node_index] = @ + 1],
                               read |-> history.read \cup {lps}
                                        \cup (IF node_index # 0 THEN l.read ELSE {})]
    /\ UNCHANGED <<input, items, outputs, node_index, cursors>>

\* The queue is empty: build_failure and build return.
BuildReturn ==
    /\ pc = "build_failure"
    /\ pending = {}
    /\ queue = <<>>
    /\ pc' = "done"
    /\ node_index' = 0
    /\ UNCHANGED <<input, items, nodes, outputs, queue, pending, cursors, history>>

Search_keep_current(i) ==
    /\ pc = "done"
    /\ cursors' = [cursors EXCEPT ![i] =
                     [AutomationSearch_new EXCEPT !.current = cursors[i].current]]
    /\ UNCHANGED <<input, items, nodes, outputs, queue, node_index, pending, pc, history>>

\* Automation::search: holder i gets a fresh cursor (dropping the one it had).
Search(i) ==
    /\ pc = "done"
    /\ cursors' = [cursors EXCEPT ![i] = AutomationSearch_new]
    /\ UNCHANGED <<input, items, nodes, outputs, queue, node_index, pending, pc, history>>

SearchNext_take_outputs(i, c, limit) ==
    /\ pc = "done"
    /\ cursors[i].status = "ready"
    /\ Len(cursors[i].consumed) < limit
    /\ LET r == next(nodes, cursors[i].current, c)
       IN /\ cursors' = [cursors EXCEPT ![i] =
                 [status |-> IF r.result = "ok" THEN "ready" ELSE r.result,
                  current |-> r.current,
                  consumed |-> Append(cursors[i].consumed, c),
                  returned |-> Append(cursors[i].returned, r.out),
                  traversals |-> cursors[i].traversals + r.steps]]
          /\ nodes' = IF r.result = "ok"
                      THEN [nodes EXCEPT ![r.current].outputs = <<>>]
                      ELSE nodes
    /\ UNCHANGED <<input, items, outputs, queue, node_index, pending, pc, history>>

SearchNext_shared_current(i, c, limit) ==
    /\ pc = "done"
    /\ cursors[i].status = "ready"
    /\ Len(cursors[i].consumed) < limit
    /\ LET r == next(nodes, cursors[i].current, c)
       IN cursors' = [j \in Cursors |->
              IF j = i
              THEN [status |-> IF r.result = "ok" THEN "ready" ELSE r.result,
                    current |-> r.current,
                    consumed |-> Append(cursors[i].consumed, c),
                    returned |-> Append(cursors[i].returned, r.out),
                    traversals |-> cursors[i].traversals + r.steps]
              ELSE [cursors[j] EXCEPT !.current = r.current]]
    /\ UNCHANGED <<input, items, nodes, outputs, queue, node_index, pending, pc, history>>

\* AutomationSearch::next on the cursor of holder i with symbol c; the holder
\* feeds at most `limit` symbols.
SearchNext(i, c, limit) ==
    /\ pc = "done"
    /\ cursors[i].status = "ready"
    /\ Len(cursors[i].consumed) < limit
    /\ LET r == next(nodes, cursors[i].current, c)
       IN cursors' = [cursors EXCEPT ![i] =
              [status |-> IF r.result = "ok" THEN "ready" ELSE r.result,
               current |-> r.current,
               consumed |-> Append(cursors[i].consumed, c),
               returned |-> Append(cursors[i].returned, r.out),
               traversals |-> cursors[i].traversals + r.steps]]
    /\ UNCHANGED <<input, items, nodes, outputs, queue, node_index, pending, pc, history>>

Build ==
    \/ AddItem
    \/ EndItems
    \/ PopFront
    \/ VisitEdge
    \/ BuildReturn

Next ==
    \/ Build
    \/ Search("s1")
    \/ \E c \in Symbols : SearchNext("s1", c, MaxStream)

Spec == Init /\ [][Next]_vars

NextPair ==
    \/ Build
    \/ \E i \in Cursors : Search(i)
    \/ \E i \in Cursors, c \in Symbols : SearchNext(i, c, PairStream)

SpecPair == InitPair /\ [][NextPair]_vars

\* build alone, from the call to the return.
SpecBuild == InitBuild /\ [][Build]_vars

\* ------------------------------------------------- vocabulary of the claims
NoNode == -1

\* The node reached from node n by the symbols of s along goto edges.
RECURSIVE WalkFrom(_, _, _)
WalkFrom(ns, n, s) ==
    IF s = <<>>
    THEN n
    ELSE IF Head(s) \in DOMAIN ns[n].goto
         THEN WalkFrom(ns, ns[n].goto[Head(s)], Tail(s))
         ELSE NoNode

Walk(ns, s) == WalkFrom(ns, 0, s)

\* The goto edges <<u, c>> that lead to node n.
EdgesInto(ns, n) ==
    {e \in (DOMAIN ns) \X Symbols :
        e[2] \in DOMAIN ns[e[1]].goto /\ ns[e[1]].goto[e[2]] = n}

\* The symbols on the way from the root to node n (n has one incoming edge).
RECURSIVE PathOf(_, _)
PathOf(ns, n) ==
    IF n = 0
    THEN <<>>
    ELSE LET e == CHOOSE e \in EdgesInto(ns, n) : TRUE
         IN Append(PathOf(ns, e[1]), e[2])

Depth(ns, n) == Len(PathOf(ns, n))

Prefix(s, k) == SubSeq(s, 1, k)

Suffix(s, k) == SubSeq(s, Len(s) - k + 1, Len(s))

IsSuffix(p, s) == Len(p) <= Len(s) /\ Suffix(s, Len(p)) = p

NoDuplicates(s) == \A x, y \in DOMAIN s : s[x] = s[y] => x = y

\* The identities a naive scan reports at the end of s: the patterns supplied
\* (identity k is the k-th supplied, from 0) that are a suffix of s.
NaiveMatches(s) == {k \in 0..(Len(input) - 1) : IsSuffix(input[k + 1], s)}

\* The patterns add_items has consumed so far.
Inserted == Prefix(input, Len(input) - Len(items))

Built == pc = "done"

Started(i) == cursors[i].status # "none"

\* The longest proper suffix of p that is a path of the trie, as its length.
LongestProperSuffixLen(ns, p) ==
    LET lens == {k \in 0..(Len(p) - 1) : Walk(ns, Suffix(p, k)) # NoNode}
    IN CHOOSE k \in lens : \A j \in lens : j <= k

\* ------------------------------------------------------------------ C1
\* C1: with non-empty patterns, the identities returned by the i-th call to
\* next are exactly those of the patterns that are a suffix of the first i
\* symbols of the stream, as a naive scan finds them.
C1_NextEqualsNaiveScan ==
    \A i \in Cursors :
        (Built /\ Started(i) /\ \A k \in DOMAIN input : input[k] # <<>>) =>
            /\ Len(cursors[i].returned) = Len(cursors[i].consumed)
            /\ \A j \in 1..Len(cursors[i].consumed) :
                   Range(cursors[i].returned[j]) = NaiveMatches(Prefix(cursors[i].consumed, j))

\* A stream on which one call reported a pattern together with a proper
\* suffix of it, and another call reported nothing.
C1_Witness ==
    /\ Built
    /\ \A k \in DOMAIN input : input[k] # <<>>
    /\ \E i \in Cursors :
        /\ \E j \in DOMAIN cursors[i].returned :
              \E x, y \in Range(cursors[i].returned[j]) :
                  Len(input[x + 1]) > Len(input[y + 1])
        /\ \E j \in DOMAIN cursors[i].returned : cursors[i].returned[j] = <<>>

\* ------------------------------------------------------------------ C2
\* C2: after build, the outputs of every node include the outputs of its
\* failure node, and no identity occurs twice in a node's outputs.
C2_OutputsClosed ==
    Built =>
        \A n \in DOMAIN nodes :
            /\ Range(nodes[nodes[n].failure].outputs) \subseteq Range(nodes[n].outputs)
            /\ NoDuplicates(nodes[n].outputs)

\* A node that has outputs of its own and a failure node, not the root, with outputs.
C2_Witness ==
    /\ Built
    /\ \E n \in DOMAIN nodes :
        /\ nodes[n].failure # 0
        /\ nodes[nodes[n].failure].outputs # <<>>
        /\ Len(nodes[n].outputs) > Len(nodes[nodes[n].failure].outputs)

\* ------------------------------------------------------------------ C3
\* C3: after build, the failure of every non-root node is the node of the
\* longest proper suffix of its path that is a path of the trie (the root if
\* only the empty one is), and its path is strictly shorter.
C3_FailureIsLongestProperSuffix ==
    Built =>
        \A n \in (DOMAIN nodes) \ {0} :
            LET p == PathOf(nodes, n)
            IN /\ nodes[n].failure \in DOMAIN nodes
               /\ nodes[n].failure = Walk(nodes, Suffix(p, LongestProperSuffixLen(nodes, p)))
               /\ Depth(nodes, nodes[n].failure) < Len(p)

\* A node whose failure is not the root and is shorter by two symbols or
\* more: the suffix loop went round more than once.
C3_Witness ==
    /\ Built
    /\ \E n \in (DOMAIN nodes) \ {0} :
        /\ nodes[n].failure # 0
        /\ Depth(nodes, n) >= Depth(nodes, nodes[n].failure) + 2

\* ------------------------------------------------------------------ C4
\* C4: the assertion of build_failure never fires, and in the finished
\* automaton no non-root node is its own failure.
C4_NoSelfFailure ==
    /\ pc # "panic"
    /\ Built => \A n \in (DOMAIN nodes) \ {0} : nodes[n].failure # n

\* build has finished on a trie with a node below the first level whose
\* failure was found through the suffix loop.
C4_Witness ==
    /\ Built
    /\ \E n \in (DOMAIN nodes) \ {0} : Depth(nodes, n) >= 2 /\ nodes[n].failure # 0

\* ------------------------------------------------------------------ C5
\* C5: every call to next returns, and current is a valid node index before
\* and after every call, also for symbols that occur in no pattern.
C5_SearchTotal ==
    \A i \in Cursors :
        /\ cursors[i].status \in {"none", "ready"}
        /\ cursors[i].current \in DOMAIN nodes

\* A cursor of an automaton with patterns has consumed a symbol that occurs
\* in no pattern, after having left the root.
C5_Witness ==
    /\ Built
    /\ input # <<>>
    /\ \E i \in Cursors :
        /\ cursors[i].status = "ready"
        /\ \E j \in DOMAIN cursors[i].consumed :
              /\ j > 1
              /\ cursors[i].returned[j - 1] # <<>>
              /\ \A k \in DOMAIN input : cursors[i].consumed[j] \notin Range(input[k])

\* ------------------------------------------------------------------ C6
\* C6: two cursors of one automaton that have been fed the same stream have
\* returned the same output sequences, element for element and in the same
\* order, at every step, and stand at the same node.
C6_SameStreamSameResults ==
    \A i, j \in Cursors :
        (Started(i) /\ Started(j) /\ cursors[i].consumed = cursors[j].consumed) =>
            /\ cursors[i].returned = cursors[j].returned
            /\ cursors[i].current = cursors[j].current
            /\ cursors[i].status = cursors[j].status

\* Two cursors have consumed the same two symbols and were handed an output
\* of two identities, away from the root.
C6_Witness ==
    /\ Built
    /\ \E i, j \in Cursors :
        /\ i # j
        /\ Started(i) /\ Started(j)
        /\ cursors[i].consumed = cursors[j].consumed
        /\ Len(cursors[i].consumed) >= 2
        /\ cursors[i].current # 0
        /\ \E k \in DOMAIN cursors[j].returned : Len(cursors[j].returned[k]) >= 2

\* ------------------------------------------------------------------ C7
\* C7: a pattern supplied several times has one path in the trie; each of
\* its occurrences has its own identity, stored once at the node of that
\* path, and next returns all of them wherever the pattern ends.
OccurrencesIn(s, x) == Cardinality({k \in DOMAIN s : s[k] = x})

C7_DuplicatesKeptApart ==
    \A a, b \in 1..Len(Inserted) :
        (a # b /\ input[a] = input[b]) =>
            LET t == Walk(nodes, input[a])
            IN /\ t # NoNode
               /\ OccurrencesIn(nodes[t].outputs, a - 1) = 1
               /\ OccurrencesIn(nodes[t].outputs, b - 1) = 1
               /\ \A i \in Cursors : \A j \in DOMAIN cursors[i].returned :
                      IsSuffix(input[a], Prefix(cursors[i].consumed, j)) =>
                          {a - 1, b - 1} \subseteq Range(cursors[i].returned[j])

\* A non-empty pattern supplied twice, inside a longer pattern, ended in a stream.
C7_Witness ==
    /\ Built
    /\ \E a, b \in DOMAIN input :
        /\ a # b /\ input[a] = input[b] /\ input[a] # <<>>
        /\ Len(input) > 2
        /\ \E i \in Cursors : \E j \in DOMAIN cursors[i].returned :
              /\ IsSuffix(input[a], Prefix(cursors[i].consumed, j))
              /\ Len(cursors[i].returned[j]) > 2

\* ------------------------------------------------------------------ C8
\* C8: build on the empty collection yields the root alone, without edges
\* or outputs, and every next on it returns nothing and stays at the root.
C8_EmptyCollection ==
    (Built /\ input = <<>>) =>
        /\ VecLen(nodes) = 1
        /\ nodes[0].goto = <<>>
        /\ nodes[0].outputs = <<>>
        /\ \A i \in Cursors :
              /\ cursors[i].status \in {"none", "ready"}
              /\ cursors[i].current = 0
              /\ \A j \in DOMAIN cursors[i].returned : cursors[i].returned[j] = <<>>

\* A cursor of the automaton of no patterns has consumed two different symbols.
C8_Witness ==
    /\ Built
    /\ input = <<>>
    /\ \E i \in Cursors :
        \E x, y \in DOMAIN cursors[i].consumed : cursors[i].consumed[x] # cursors[i].consumed[y]

\* ------------------------------------------------------------------ C9
\* C9: the k-th pattern supplied (from 0, duplicates counted) gets identity
\* k: the catalog lists the patterns consumed so far in their order, identity
\* k is stored at the node of the k-th pattern, and every identity in a
\* node's outputs or returned by next indexes the catalog.
C9_IdentitiesInInsertionOrder ==
    /\ VecLen(outputs) = Len(Inserted)
    /\ Built => VecLen(outputs) = Len(input)
    /\ DOMAIN outputs = 0..(Len(Inserted) - 1)
    /\ \A k \in DOMAIN outputs :
          /\ outputs[k] = input[k + 1]
          /\ Walk(nodes, input[k + 1]) # NoNode
          /\ k \in Range(nodes[Walk(nodes, input[k + 1])].outputs)
    /\ \A n \in DOMAIN nodes : Range(nodes[n].outputs) \subseteq DOMAIN outputs
    /\ \A i \in Cursors : \A j \in DOMAIN cursors[i].returned :
          Range(cursors[i].returned[j]) \subseteq DOMAIN outputs

\* Three patterns, the first and the last the same, and a cursor was handed
\* the identity of the last one.
C9_Witness ==
    /\ Built
    /\ Len(input) = 3
    /\ input[1] = input[3]
    /\ input[1] # input[2]
    /\ \E i \in Cursors : \E j \in DOMAIN cursors[i].returned :
          2 \in Range(cursors[i].returned[j])

\* ----------------------------------------------------------------- C10
\* C10: in the trie, no edge leads to node 0 and every other node is the
\* target of exactly one goto edge; walking a node's path from the root
\* leads back to it, so distinct nodes have distinct paths; every path is a
\* prefix of a pattern inserted; and there are as many nodes as distinct
\* non-empty prefixes of the patterns inserted, plus one.
InsertedPrefixes ==
    UNION {{Prefix(Inserted[k], l) : l \in 1..Len(Inserted[k])} : k \in DOMAIN Inserted}

C10_TrieShape ==
    /\ DOMAIN nodes = 0..(VecLen(nodes) - 1)
    /\ EdgesInto(nodes, 0) = {}
    /\ \A n \in (DOMAIN nodes) \ {0} : Cardinality(EdgesInto(nodes, n)) = 1
    /\ \A n \in DOMAIN nodes : Walk(nodes, PathOf(nodes, n)) = n
    /\ \A n \in (DOMAIN nodes) \ {0} : PathOf(nodes, n) \in InsertedPrefixes
    /\ VecLen(nodes) = 1 + Cardinality(InsertedPrefixes)

\* All patterns are inserted; two of them share a first symbol and then part.
C10_Witness ==
    /\ items = <<>>
    /\ \E a, b \in DOMAIN input :
        /\ Len(input[a]) >= 2 /\ Len(input[b]) >= 2
        /\ input[a][1] = input[b][1]
        /\ input[a][2] # input[b][2]

\* ----------------------------------------------------------------- C11
\* The cursor that search() followed by one next call per symbol of the
\* stream gives when nothing else runs.
RECURSIVE RunAlone(_, _)
RunAlone(ns, stream) ==
    IF stream = <<>>
    THEN AutomationSearch_new
    ELSE LET before == RunAlone(ns, Prefix(stream, Len(stream) - 1))
             r == next(ns, before.current, stream[Len(stream)])
         IN [status |-> IF r.result = "ok" THEN "ready" ELSE r.result,
             current |-> r.current,
             consumed |-> stream,
             returned |-> Append(before.returned, r.out),
             traversals |-> before.traversals + r.steps]

\* C11: however the next calls of several cursors on different streams are
\* interleaved, each cursor has, at every step, the outputs and the current
\* node it would have had running alone on its own stream.
C11_CursorsDoNotInterfere ==
    \A i \in Cursors :
        (Built /\ Started(i)) => cursors[i] = RunAlone(nodes, cursors[i].consumed)

\* Two cursors stand at different nodes, neither the root, after different
\* streams of the same length.
C11_Witness ==
    /\ Built
    /\ \E i, j \in Cursors :
        /\ Started(i) /\ Started(j)
        /\ Len(cursors[i].consumed) = Len(cursors[j].consumed)
        /\ cursors[i].consumed # cursors[j].consumed
        /\ cursors[i].current # 0
        /\ cursors[j].current # 0
        /\ cursors[i].current # cursors[j].current
        /\ cursors[i].returned # cursors[j].returned

\* ----------------------------------------------------------------- C12
\* C12: once build has returned, no step (search() or next) changes the
\* automaton: the nodes with their goto, failure and outputs, their number,
\* and the pattern catalog stay as they are.
C12_AutomatonUnchangedAfterBuild ==
    [][Built => (nodes' = nodes /\ outputs' = outputs /\ Built')]_vars

\* A next call has followed a failure link and returned a match.
C12_Witness ==
    /\ Built
    /\ \E i \in Cursors :
        /\ cursors[i].traversals > 0
        /\ cursors[i].returned # <<>>
        /\ cursors[i].returned[Len(cursors[i].returned)] # <<>>

\* ----------------------------------------------------------------- C13
\* The number of failure links from node n to the root; more than there are
\* nodes when the root is not reached.
RECURSIVE FailureHops(_, _, _)
FailureHops(ns, n, fuel) ==
    IF n = 0
    THEN 0
    ELSE IF fuel = 0
         THEN 1
         ELSE 1 + FailureHops(ns, ns[n].failure, fuel - 1)

\* C13: in the built automaton the failure links from any node reach the
\* root in at most as many steps as the node is deep, and for every current
\* node and every symbol the loop of next ends, after at most that many
\* traversals, at the root or at a node with an edge for the symbol.
C13_FailureLoopTerminates ==
    Built =>
        \A n \in DOMAIN nodes :
            LET d == Depth(nodes, n)
            IN /\ FailureHops(nodes, n, VecLen(nodes)) <= d
               /\ \A c \in Symbols :
                     LET w == next_walk(nodes, n, c)
                     IN /\ w.result = "ok"
                        /\ w.steps <= d
                        /\ w.current = 0 \/ contains(nodes[w.current], c)

\* An automaton with a node three levels deep that is three failure links
\* away from the root, and a node from which the loop of next follows two
\* links and stops before the root.
C13_Witness ==
    /\ Built
    /\ \E n \in DOMAIN nodes :
          Depth(nodes, n) = 3 /\ FailureHops(nodes, n, VecLen(nodes)) = 3
    /\ \E n \in DOMAIN nodes : \E c \in Symbols :
          LET w == next_walk(nodes, n, c)
          IN w.steps = 2 /\ w.current # 0

\* ----------------------------------------------------------------- C14
\* Each of the k failure links followed from node n leads to a strictly
\* shallower node.
RECURSIVE LinksDescend(_, _, _)
LinksDescend(ns, n, k) ==
    \/ k = 0
    \/ /\ n # 0
       /\ Depth(ns, ns[n].failure) < Depth(ns, n)
       /\ LinksDescend(ns, ns[n].failure, k - 1)

\* Holder i has taken a next call in this step.
NextCalled(i) == Len(cursors'[i].consumed) = Len(cursors[i].consumed) + 1

\* C14: every failure link a next call follows leads to a strictly shallower
\* node, and the call leaves current at most one level deeper than it was;
\* so a cursor has never followed more failure links than it has consumed
\* symbols.
C14_TraversalsBoundedBySymbols ==
    /\ [][\A i \in Cursors :
             NextCalled(i) =>
                 LET k == cursors'[i].traversals - cursors[i].traversals
                 IN /\ cursors'[i].status = "ready"
                    /\ LinksDescend(nodes, cursors[i].current, k)
                    /\ Depth(nodes, cursors'[i].current)
                           <= Depth(nodes, cursors[i].current) - k + 1
                    /\ Depth(nodes, cursors'[i].current)
                           <= Depth(nodes, cursors[i].current) + 1]_vars
    /\ [](\A i \in Cursors :
             /\ cursors[i].traversals <= Len(cursors[i].consumed)
             /\ cursors[i].status = "ready" =>
                    cursors[i].traversals + Depth(nodes, cursors[i].current)
                        <= Len(cursors[i].consumed))

\* A cursor that has followed two failure links in one call and stands one
\* level deep: links followed and depth add up to the symbols consumed.
C14_Witness ==
    /\ Built
    /\ \E i \in Cursors :
        /\ cursors[i].traversals = 2
        /\ Len(cursors[i].consumed) = 3
        /\ cursors[i].current # 0

\* ----------------------------------------------------------------- C15
\* What build has left to do, as a pair ordered lexicographically: the phase
\* (2 inserting, 1 in build_failure, 0 returned or stopped) and, within the
\* phase, the patterns left to insert, or twice the nodes whose failure is
\* still to assign plus the nodes waiting in the queue.
Phase == CASE pc = "add_items" -> 2 [] pc = "build_failure" -> 1 [] OTHER -> 0

Unassigned == {n \in (DOMAIN history.assigned) \ {0} : history.assigned[n] = 0}

WorkLeft ==
    CASE pc = "add_items" -> Len(items)
      [] pc = "build_failure" -> 2 * Cardinality(Unassigned) + Len(queue)
      [] OTHER -> 0

\* The guards of the steps of build: one of them can be taken.
BuildCanStep ==
    \/ pc = "add_items" /\ items # <<>>
    \/ pc = "add_items" /\ items = <<>>
    \/ pc = "build_failure" /\ pending = {} /\ queue # <<>>
    \/ pc = "build_failure" /\ pending # {}
    \/ pc = "build_failure" /\ pending = {} /\ queue = <<>>

\* C15: build returns for every collection.  Every step of build lowers
\* what is left to do, and a step is possible until build has returned: the
\* suffix loop reaches its exit, the assertion holds and the queue runs
\* empty.  By then every node has been enqueued once and every node but the
\* root has had its failure assigned once, never more, the root never.
C15_BuildTerminates ==
    /\ [][(Phase' < Phase) \/ (Phase' = Phase /\ WorkLeft' < WorkLeft)]_vars
    /\ [](Built \/ BuildCanStep)
    /\ [](pc = "build_failure" =>
             \A n \in DOMAIN nodes :
                 /\ history.enqueued[n] <= 1
                 /\ history.assigned[n] <= 1
                 /\ history.assigned[0] = 0)
    /\ [](Built =>
             /\ queue = <<>>
             /\ items = <<>>
             /\ \A n \in DOMAIN nodes :
                   /\ history.enqueued[n] = 1
                   /\ history.assigned[n] = IF n = 0 THEN 0 ELSE 1)

\* build has returned on a trie of six nodes in which the suffix loop went
\* round more than once for some node.
C15_Witness ==
    /\ Built
    /\ VecLen(nodes) = 6
    /\ \E n \in (DOMAIN nodes) \ {0} :
          /\ nodes[n].failure # 0
          /\ Depth(nodes, n) >= Depth(nodes, nodes[n].failure) + 2
    /\ \A n \in (DOMAIN nodes) \ {0} : history.assigned[n] = 1

\* ----------------------------------------------------------------- C16
\* The identities of the patterns that end exactly at node v, in the order
\* the patterns were supplied.
OwnOutputs(ns, v) ==
    SelectSeq([k \in 1..Len(input) |-> k - 1], LAMBDA k : Walk(ns, input[k + 1]) = v)

\* What the cursors were handed is the outputs of the node they stand at.
ReturnedIsOutputsOfCurrent ==
    \A i \in Cursors :
        (cursors[i].status = "ready" /\ cursors[i].returned # <<>>) =>
            cursors[i].returned[Len(cursors[i].returned)] = nodes[cursors[i].current].outputs

\* C16 as claimed: after build the outputs of EVERY node v are the
\* identities of the patterns ending at v, in insertion order, followed by
\* the outputs of failure(v) in their order, and next returns them so.
C16_AsClaimed ==
    Built =>
        /\ \A v \in DOMAIN nodes :
              nodes[v].outputs = OwnOutputs(nodes, v) \o nodes[nodes[v].failure].outputs
        /\ ReturnedIsOutputsOfCurrent

\* C16, amended: this holds of every node but the root; the outputs of the
\* root, whose failure is the root itself and is never merged, are only the
\* identities of the patterns ending at it (the empty patterns), in
\* insertion order.
C16_OutputsOrder ==
    Built =>
        /\ nodes[0].outputs = OwnOutputs(nodes, 0)
        /\ \A v \in (DOMAIN nodes) \ {0} :
              nodes[v].outputs = OwnOutputs(nodes, v) \o nodes[nodes[v].failure].outputs
        /\ ReturnedIsOutputsOfCurrent

\* A cursor was handed the outputs of a node at which two patterns end and
\* which inherits a further one.
C16_Witness ==
    /\ Built
    /\ \E i \in Cursors :
        LET v == cursors[i].current
        IN /\ cursors[i].status = "ready"
           /\ v # 0
           /\ Len(OwnOutputs(nodes, v)) = 2
           /\ nodes[nodes[v].failure].outputs # <<>>
           /\ cursors[i].returned[Len(cursors[i].returned)] = nodes[v].outputs

\* ----------------------------------------------------------------- C17
\* Node n has been taken from the queue of build_failure.
Dequeued(n) ==
    /\ pc = "build_failure"
    /\ history.enqueued[n] >= 1
    /\ n \notin Range(queue)

\* C17: in build_failure, a node whose failure or outputs a step reads (the
\* nodes on the suffix chain from the parent, and the node chosen as the
\* failure) is the root or had its failure and outputs assigned before that
\* step; no step changes the failure or outputs of a node that has been
\* read, in that step or earlier; and none changes the failure of a node
\* that has been dequeued.
C17_ReadValuesAreFinal ==
    [][pc = "build_failure" =>
          /\ \A n \in history'.read \ history.read :
                n = 0 \/ history.assigned[n] >= 1
          /\ \A n \in history'.read :
                /\ nodes'[n].failure = nodes[n].failure
                /\ nodes'[n].outputs = nodes[n].outputs
          /\ \A n \in DOMAIN nodes :
                Dequeued(n) => nodes'[n].failure = nodes[n].failure]_vars

\* build_failure has read the failure of a node below the first level whose
\* failure is not the root, and the outputs of another such node.
C17_Witness ==
    /\ Built
    /\ \E n, t \in history.read :
          /\ n # t
          /\ Depth(nodes, n) >= 2 /\ nodes[n].failure # 0
          /\ Depth(nodes, t) >= 2 /\ nodes[t].outputs # <<>>

\* ----------------------------------------------------------------- C18
\* C18: the identity of an empty pattern is attached to the root when the
\* pattern is inserted; after build it is in the outputs of every node; and
\* every next call, from the first on and whatever the symbol, returns it.
C18_EmptyPatternEverywhere ==
    \A k \in 1..Len(Inserted) :
        input[k] = <<>> =>
            /\ (k - 1) \in Range(nodes[0].outputs)
            /\ Built => \A n \in DOMAIN nodes : (k - 1) \in Range(nodes[n].outputs)
            /\ \A i \in Cursors : \A j \in DOMAIN cursors[i].returned :
                  (k - 1) \in Range(cursors[i].returned[j])

\* With an empty pattern among others, a cursor was handed its identity
\* alone at the root and together with another away from the root.
C18_Witness ==
    /\ Built
    /\ \E k \in DOMAIN input : input[k] = <<>>
    /\ \E i \in Cursors :
        /\ cursors[i].current = 0
        /\ cursors[i].returned # <<>>
        /\ Len(cursors[i].returned[Len(cursors[i].returned)]) = 1
        /\ \E j \in DOMAIN cursors[i].returned : Len(cursors[i].returned[j]) >= 2

\* ----------------------------------------------------------------- C19
\* The longest suffix of s that is a path of the trie, as its length.
LongestSuffixLen(ns, s) ==
    LET lens == {k \in 0..Len(s) : Walk(ns, Suffix(s, k)) # NoNode}
    IN CHOOSE k \in lens : \A j \in lens : j <= k

\* C19: after every call to next, the current node of a cursor is the node
\* of the longest suffix of the stream consumed that is a path of the trie,
\* the root when only the empty suffix is.
C19_CurrentIsLongestSuffix ==
    \A i \in Cursors :
        (Built /\ Started(i)) =>
            /\ cursors[i].status = "ready"
            /\ cursors[i].current =
                   Walk(nodes, Suffix(cursors[i].consumed,
                                      LongestSuffixLen(nodes, cursors[i].consumed)))

\* A cursor stands away from the root on a proper suffix of its stream,
\* which is not a path itself, after following failure links.
C19_Witness ==
    /\ Built
    /\ \E i \in Cursors :
        /\ cursors[i].status = "ready"
        /\ cursors[i].current # 0
        /\ cursors[i].traversals >= 1
        /\ Walk(nodes, cursors[i].consumed) = NoNode
        /\ LongestSuffixLen(nodes, cursors[i].consumed) < Len(cursors[i].consumed)

\* ----------------------------------------------------------------- C20
\* The trie add_items makes of the patterns, before build_failure.
RECURSIVE InsertAll(_, _, _)
InsertAll(ns, outs, its) ==
    IF its = <<>>
    THEN ns
    ELSE LET r == add_item(ns, outs, Head(its))
         IN InsertAll(r.nodes, r.outputs, Tail(its))

TrieOf(patterns) == InsertAll(build_nodes, <<>>, patterns)

\* The failure and the outputs that the patterns alone determine for node
\* n of trie t: the node of the longest proper suffix of its path, and its
\* own outputs followed by the determined outputs of that node.
ExpectedFailure(t, n) ==
    IF n = 0
    THEN 0
    ELSE LET p == PathOf(t, n)
         IN Walk(t, Suffix(p, LongestProperSuffixLen(t, p)))

RECURSIVE ExpectedOutputs(_, _)
ExpectedOutputs(t, n) ==
    IF n = 0
    THEN t[0].outputs
    ELSE t[n].outputs \o ExpectedOutputs(t, ExpectedFailure(t, n))

ExpectedAutomaton(patterns) ==
    LET t == TrieOf(patterns)
    IN [n \in DOMAIN t |->
           [goto |-> t[n].goto,
            failure |-> ExpectedFailure(t, n),
            outputs |-> ExpectedOutputs(t, n)]]

\* C20: whatever order the edges of each node are visited in, build_failure
\* gives every node the failure and the ordered outputs that the pattern
\* collection alone determines: each node gets them when it is assigned,
\* and the finished automaton is that one automaton.
C20_EdgeOrderIrrelevant ==
    /\ [](Built => nodes = ExpectedAutomaton(input))
    /\ [][\A n \in (DOMAIN nodes) \ {0} :
             (pc = "build_failure" /\ history'.assigned[n] # history.assigned[n]) =>
                 LET t == TrieOf(input)
                 IN /\ nodes'[n].failure = ExpectedFailure(t, n)
                    /\ nodes'[n].outputs = ExpectedOutputs(t, n)]_vars

\* build has finished on a trie in which the root and another node have
\* two outgoing edges each, and a node below inherits outputs.
C20_Witness ==
    /\ Built
    /\ Cardinality(DOMAIN nodes[0].goto) = 2
    /\ \E n \in (DOMAIN nodes) \ {0} :
          /\ Cardinality(DOMAIN nodes[n].goto) = 2
          /\ \E c \in DOMAIN nodes[n].goto :
                nodes[nodes[n].goto[c]].failure # 0
    /\ \E n \in (DOMAIN nodes) \ {0} :
          Len(nodes[n].outputs) > Len(OwnOutputs(nodes, n))

====
